---- MODULE Spec2Model ----
(***************************************************************************)
(* Model of spin.py: the eligibility gate (should_spin), the persisted      *)
(* record (last_spin.json), the browser flow of perform_spin and the exit   *)
(* code mapping of main.                                                    *)
(*                                                                          *)
(* Time is counted in quarter hours, so that the 24.25 hour interval is the *)
(* integer 97.  Text is a sequence of words; Python's None is the record    *)
(* None and a string s is Some(s).                                          *)
(***************************************************************************)
EXTENDS Integers, Sequences, FiniteSets, TLC

\* ---------------------------------------------------------------- bounds
MaxNow == 98        \* last instant the clock reaches
MaxStored == 1      \* latest timestamp found in a pre-existing state file
MaxFrames == 2      \* largest len(page.frames)

\* ------------------------------------------------------------- constants
\* timedelta(hours=SPIN_INTERVAL_HOURS), 24.25 h in quarter hours
required == 97

EMAIL_INPUT_SELECTORS == << "#email_input_text" >>

SPIN_BUTTON_SELECTORS ==
    << "#spin-button", "button:has-text('SPIN')", "button[type='submit']",
       "input[type='submit']", "[class*='spin' i] button" >>

\* ------------------------------------------------------------ Python values
None == [none |-> TRUE, v |-> << >>]
Some(s) == [none |-> FALSE, v |-> s]

\* `if x:` on an Optional[str]: None and "" are falsy
Truthy(x) == ~x.none /\ x.v # << >>

\* ------------------------------------------------------------- datetimes
\* an aware datetime carries the UTC offset, a naive one does not
DateTime(t, aware) == [t |-> t, aware |-> aware]

\* JSON values of the "last_spin" key: null, an ISO-8601 string, other text
JsonNull == [k |-> "null", t |-> 0, off |-> ""]
JsonBad == [k |-> "bad", t |-> 0, off |-> ""]

\* datetime.isoformat(): the instant followed by the offset when aware
isoformat(dt) ==
    [k |-> "iso", t |-> dt.t, off |-> IF dt.aware THEN "+00:00" ELSE ""]

\* datetime.fromisoformat(): ValueError on anything that is not ISO-8601
fromisoformat(s) ==
    IF s.k = "iso"
    THEN [raised |-> FALSE, dt |-> DateTime(s.t, s.off # "")]
    ELSE [raised |-> TRUE, dt |-> DateTime(0, FALSE)]

\* datetime.now(timezone.utc)
utcnow(clock) == DateTime(clock, TRUE)

\* ------------------------------------------------------------ state file
NoFile == [exists |-> FALSE, last_spin |-> JsonNull, result |-> None]
FileOf(ls, res) == [exists |-> TRUE, last_spin |-> ls, result |-> res]

load_last_spin(f) ==
    IF f.exists
    THEN [last_spin |-> f.last_spin, result |-> f.result]
    ELSE [last_spin |-> JsonNull, result |-> None]

save_last_spin_no_result(result, clock) == FileOf(isoformat(utcnow(clock)), None)
save_last_spin(result, clock) == FileOf(isoformat(utcnow(clock)), result)

\* elapsed >= required
ElapsedEnoughStrict(elapsed) == elapsed > required
ElapsedEnough(elapsed) == elapsed >= required

\* should_spin(): "true", "false", or "raised" when the call does not return
should_spin(f, clock) ==
    LET data == load_last_spin(f)
        last_spin == data.last_spin
        parsed == fromisoformat(last_spin)
    IN  IF last_spin = JsonNull THEN "true"
        ELSE IF parsed.raised THEN "raised"                 \* ValueError
        ELSE IF ~parsed.dt.aware THEN "raised"              \* TypeError: aware - naive
        ELSE IF ElapsedEnough(utcnow(clock).t - parsed.dt.t) THEN "true"
        ELSE "false"

\* ------------------------------------------------------------- messages
NoExc == << >>
MSG_WHEEL == << "Spin", "wheel", "not", "available", "-", "email", "input",
                "not", "found", "(wheel", "may", "appear", "after", "24", "hours)" >>
MSG_BUTTON == << "Could", "not", "find", "spin/submit", "button" >>
MSG_TIMEOUT == << "Timeout", "60000ms", "exceeded." >>
MSG_NAV == << "Page.goto:", "net::ERR_CONNECTION_REFUSED" >>
MSG_PLAYWRIGHT == << "Target", "page,", "context", "or", "browser", "has",
                     "been", "closed" >>

\* str.lower() on one word
LowerWord(w) ==
    CASE w = "Spin" -> "spin"
      [] w = "Could" -> "could"
      [] w = "Timeout" -> "timeout"
      [] w = "Page.goto:" -> "page.goto:"
      [] w = "net::ERR_CONNECTION_REFUSED" -> "net::err_connection_refused"
      [] w = "Target" -> "target"
      [] OTHER -> w

lower(msg) == [i \in 1..Len(msg) |-> LowerWord(msg[i])]

\* "not available" in s
ContainsNotAvailable(s) ==
    \E i \in 1..(Len(s) - 1) : s[i] = "not" /\ s[i + 1] = "available"

ExitCodeForAlwaysZero(msg) == 0
\* main's except clause: the exit code chosen for an exception message
ExitCodeFor(msg) == IF ContainsNotAvailable(lower(msg)) THEN 0 ELSE 1

\* ------------------------------------------------------------- locators
\* what a locator query finds for one selector in one frame: no element,
\* a first element that is hidden or visible, or a Playwright error
ElemStates == {"none", "hidden", "visible", "error"}

NotFound == [frame |-> 0, sel |-> 0]

RECURSIVE EmailScan(_, _, _, _)
\* the nested loops of Step 2, from frame f and selector s onwards:
\* count > 0 selects the element, an exception moves on to the next selector
EmailScan(e, n, f, s) ==
    IF f > n THEN NotFound
    ELSE IF s > Len(EMAIL_INPUT_SELECTORS) THEN EmailScan(e, n, f + 1, 1)
    ELSE IF e[f][s] \in {"hidden", "visible"} THEN [frame |-> f, sel |-> s]
    ELSE EmailScan(e, n, f, s + 1)

RECURSIVE EmailScanInnerFirst(_, _, _, _)
EmailScanInnerFirst(e, n, f, s) ==
    IF f < 1 THEN NotFound
    ELSE IF s > Len(EMAIL_INPUT_SELECTORS) THEN EmailScanInnerFirst(e, n, f - 1, 1)
    ELSE IF e[f][s] \in {"hidden", "visible"} THEN [frame |-> f, sel |-> s]
    ELSE EmailScanInnerFirst(e, n, f, s + 1)

FindEmailInputInnerFirst(e, n) == EmailScanInnerFirst(e, n, n, 1)
\* for frame in page.frames: for selector in EMAIL_INPUT_SELECTORS: ...
FindEmailInput(e, n) == EmailScan(e, n, 1, 1)

RECURSIVE ButtonScan(_, _)
\* the loop of Step 3 over SPIN_BUTTON_SELECTORS in the target frame:
\* count > 0 and btn.is_visible() selects, anything else tries the next one
ButtonScan(b, s) ==
    IF s > Len(SPIN_BUTTON_SELECTORS) THEN 0
    ELSE IF b[s] = "visible" THEN s
    ELSE ButtonScan(b, s + 1)

FindSpinButtonPrimaryOnly(b) == IF b[1] = "visible" THEN 1 ELSE 0
FindSpinButton(b) == ButtonScan(b, 1)

\* ------------------------------------------------------- optional steps
ExceptPropagate(outcome) == IF outcome = "error" THEN MSG_PLAYWRIGHT ELSE NoExc
\* try: ... except Exception: report and carry on; the message of the
\* exception that leaves the block, NoExc when none does
ExceptSwallow(outcome) == NoExc

Closed(c, e) == [closed |-> c, exc |-> e]

RECURSIVE RivoScan(_, _, _)
\* Step 1a, first loop: frames whose url or name contains "rivo"; a visible
\* close button is clicked and ends the loop
RivoScan(r, n, f) ==
    IF f > n THEN Closed(FALSE, NoExc)
    ELSE IF ~r[f].rivo THEN RivoScan(r, n, f + 1)
    ELSE IF r[f].btn = "visible" THEN Closed(TRUE, NoExc)
    ELSE IF ExceptSwallow(r[f].btn) # NoExc THEN Closed(FALSE, ExceptSwallow(r[f].btn))
    ELSE RivoScan(r, n, f + 1)

RECURSIVE FallbackScan(_, _, _)
\* Step 1a, fallback loop over all frames
FallbackScan(c, n, f) ==
    IF f > n THEN Closed(FALSE, NoExc)
    ELSE IF c[f] = "visible" THEN Closed(TRUE, NoExc)
    ELSE IF ExceptSwallow(c[f]) # NoExc THEN Closed(FALSE, ExceptSwallow(c[f]))
    ELSE FallbackScan(c, n, f + 1)

HeaderTexts == { << >>, << "CONGRATULATIONS!" >> }
WinTexts == { << "You", "won", "a", "sticker" >> }
ScrapeOutcomes(texts) ==
    {[kind |-> "error", text |-> << >>], [kind |-> "hidden", text |-> << >>]}
    \cup {[kind |-> "text", text |-> t] : t \in texts}

\* result after the "#win_header_text" block
ScrapeHeader(h) == IF h.kind = "text" THEN Some(h.text) ELSE None

\* result after the "#win_text" block
ScrapeWinText(result, w) ==
    IF w.kind = "text"
    THEN IF Truthy(result) THEN Some(result.v \o << "-" >> \o w.text)
         ELSE Some(w.text)
    ELSE result

\* ----------------------------------------------------------------- state
VARIABLES
    test, force,        \* args.test, args.force
    emailSet,           \* FWP_EMAIL is set and non-empty
    file,               \* last_spin.json
    file0,              \* last_spin.json when the run started
    now,                \* the wall clock
    pc,                 \* position of the run
    gate,               \* what should_spin did in this run, "none" if not called
    spun,               \* perform_spin was entered in this run
    frames,             \* len(page.frames), 0 before the page has loaded
    emailIn,            \* per frame and selector, what the email locator met;
                        \* kept until the chosen element has been filled
    email_input,        \* frame and selector of the chosen element, or NotFound
    btnTarget,          \* a visible submit control exists in target_frame
    btnElsewhere,       \* a visible submit control exists in another frame
    spin_button,        \* index of the chosen selector, 0 for None
    scrapeErrs,         \* scraping blocks of this run that met an exception
    result,             \* perform_spin's result
    exc,                \* message of the exception leaving perform_spin
    outcome,            \* how the run ended
    exitCode            \* process exit code, -1 while running

vars == << test, force, emailSet, file, file0, now, pc, gate, spun, frames,
           emailIn, email_input, btnTarget, btnElsewhere, spin_button,
           scrapeErrs, result, exc, outcome, exitCode >>

args == << test, force, emailSet >>
locals == << frames, emailIn, email_input, btnTarget, btnElsewhere,
             spin_button, scrapeErrs, result >>

NoEmailIn == << >>

\* the state files a run may find: none, a record this program wrote earlier,
\* or a record edited by hand (null, naive or unparsable timestamp)
StateFiles ==
    {NoFile, FileOf(JsonNull, None), FileOf(JsonBad, None)}
    \cup {FileOf(isoformat(DateTime(t, a)), Some(<< "CONGRATULATIONS!" >>)) :
            t \in 0..MaxStored, a \in BOOLEAN}

Init ==
    /\ test \in BOOLEAN
    /\ force \in BOOLEAN
    /\ emailSet \in BOOLEAN
    /\ file \in StateFiles
    /\ file0 = file
    /\ now \in (required - 1)..MaxNow
    /\ pc = "start"
    /\ gate = "none"
    /\ spun = FALSE
    /\ frames = 0
    /\ emailIn = NoEmailIn
    /\ email_input = NotFound
    /\ btnTarget = FALSE
    /\ btnElsewhere = FALSE
    /\ spin_button = 0
    /\ scrapeErrs = 0
    /\ result = None
    /\ exc = NoExc
    /\ outcome = "running"
    /\ exitCode = -1

\* sys.exit(code), or the interpreter ending the process
Exit(how, code) ==
    /\ pc' = "done"
    /\ outcome' = how
    /\ exitCode' = code

\* ------------------------------------------------------------------ main
\* "Determine email to use"
MainEmail ==
    /\ pc = "start"
    /\ IF ~test /\ ~emailSet
       THEN Exit("no_email", 1)
       ELSE pc' = "gate" /\ UNCHANGED << outcome, exitCode >>
    /\ UNCHANGED << args, file, file0, now, gate, spun, locals, exc >>

GateConsultedUnlessForce(t, f) == ~f
GateConsultedUnlessTest(t, f) == ~t
\* if not args.force and not args.test
GateConsulted(t, f) == ~f /\ ~t

\* "Check if we should spin"; an exception of should_spin is not caught and
\* ends the process with a traceback and exit code 1
MainGate ==
    /\ pc = "gate"
    /\ IF GateConsulted(test, force)
       THEN LET r == should_spin(file, now)
            IN  /\ gate' = r
                /\ CASE r = "raised" -> Exit("gate_error", 1)
                     [] r = "false" -> Exit("skipped", 0)
                     [] OTHER -> pc' = "goto" /\ UNCHANGED << outcome, exitCode >>
       ELSE /\ gate' = "none"
            /\ pc' = "goto"
            /\ UNCHANGED << outcome, exitCode >>
    /\ UNCHANGED << args, file, file0, now, spun, locals, exc >>

\* ---------------------------------------------------------- perform_spin
RaiseSwallowed(e) == pc' = "returned" /\ exc' = exc
\* an exception inside the try block reaches the except clauses
Raise(e) == pc' = "except" /\ exc' = e

\* except PlaywrightTimeout / except Exception: screenshot and re-raise; a
\* failing screenshot replaces the exception
ExceptClause ==
    /\ pc = "except"
    /\ \E shotOk \in BOOLEAN : exc' = IF shotOk THEN exc ELSE MSG_PLAYWRIGHT
    /\ pc' = "raised"
    /\ UNCHANGED << args, file, file0, now, gate, spun, locals, outcome,
                    exitCode >>

\* browser launch (outside the try block) and
\* page.goto(LOYALTY_URL, wait_until="load", timeout=60000)
Goto ==
    /\ pc = "goto"
    /\ spun' = TRUE
    /\ \E o \in {"ok", "launch", "nav", "timeout"} :
          CASE o = "ok" ->
                  /\ \E n \in 1..MaxFrames : frames' = n
                  /\ pc' = "modal"
                  /\ exc' = exc
            [] o = "launch" ->
                  /\ pc' = "raised"
                  /\ exc' = MSG_PLAYWRIGHT
                  /\ frames' = frames
            [] o = "nav" -> Raise(MSG_NAV) /\ frames' = frames
            [] o = "timeout" -> Raise(MSG_TIMEOUT) /\ frames' = frames
    /\ UNCHANGED << args, file, file0, now, gate, emailIn, email_input,
                    btnTarget, btnElsewhere, spin_button, scrapeErrs, result,
                    outcome, exitCode >>

\* page.wait_for_timeout(5000) after the load and page.wait_for_timeout(10000)
\* after the click let the wall clock advance
Tick ==
    /\ pc \in {"modal", "scrape_header"}
    /\ now < MaxNow
    /\ now' = now + 1
    /\ UNCHANGED << args, file, file0, pc, gate, spun, locals, exc, outcome,
                    exitCode >>

\* Step 1a, the Rivo iframes; modal_closed decides whether the fallback runs
CloseRivoModal ==
    /\ pc = "modal"
    /\ \E r \in [1..frames -> [rivo : BOOLEAN, btn : ElemStates]] :
          LET c == RivoScan(r, frames, 1)
          IN  IF c.exc # NoExc
              THEN Raise(c.exc)
              ELSE /\ pc' = IF c.closed THEN "popup" ELSE "fallback"
                   /\ exc' = exc
    /\ UNCHANGED << args, file, file0, now, gate, spun, locals, outcome,
                    exitCode >>

\* Step 1a, "if not modal_closed": any frame with a modal close button
CloseModalFallback ==
    /\ pc = "fallback"
    /\ \E c \in [1..frames -> ElemStates] :
          LET d == FallbackScan(c, frames, 1)
          IN  IF d.exc # NoExc
              THEN Raise(d.exc)
              ELSE pc' = "popup" /\ exc' = exc
    /\ UNCHANGED << args, file, file0, now, gate, spun, locals, outcome,
                    exitCode >>

\* Step 1b: page.evaluate returns true or false, or it (or the mouse click
\* that follows false) raises
ClosePopup ==
    /\ pc = "popup"
    /\ \E o \in {"true", "false", "error"} :
          IF ExceptSwallow(o) # NoExc
          THEN Raise(ExceptSwallow(o))
          ELSE pc' = "find_email" /\ exc' = exc
    /\ UNCHANGED << args, file, file0, now, gate, spun, locals, outcome,
                    exitCode >>

\* Step 2: locate the email input; none found raises the wheel-not-available
\* exception after a screenshot that may itself fail
FindEmail ==
    /\ pc = "find_email"
    /\ \E e \in [1..frames -> [1..Len(EMAIL_INPUT_SELECTORS) -> ElemStates]],
          shotOk \in BOOLEAN :
          /\ emailIn' = e
          /\ email_input' = FindEmailInput(e, frames)
          /\ IF FindEmailInput(e, frames) = NotFound
             THEN Raise(IF shotOk THEN MSG_WHEEL ELSE MSG_PLAYWRIGHT)
             ELSE pc' = "fill" /\ exc' = exc
    /\ UNCHANGED << args, file, file0, now, gate, spun, frames, btnTarget,
                    btnElsewhere, spin_button, scrapeErrs, result, outcome,
                    exitCode >>

\* email_input.wait_for(state="visible", timeout=10000); email_input.fill(email)
\* a hidden element may still appear within the timeout
FillEmail ==
    /\ pc = "fill"
    /\ \E appears \in BOOLEAN, fillOk \in BOOLEAN :
          LET st == emailIn[email_input.frame][email_input.sel]
          IN  IF st = "hidden" /\ ~appears THEN Raise(MSG_TIMEOUT)
              ELSE IF ~fillOk THEN Raise(MSG_PLAYWRIGHT)
              ELSE pc' = "find_button" /\ exc' = exc
    /\ emailIn' = NoEmailIn
    /\ UNCHANGED << args, file, file0, now, gate, spun, frames, email_input,
                    btnTarget, btnElsewhere, spin_button, scrapeErrs, result,
                    outcome, exitCode >>

\* Step 3: locate the submit control in target_frame, the frame of the email
\* input; none found raises "Could not find spin/submit button" after a
\* screenshot that may itself fail
FindButton ==
    /\ pc = "find_button"
    /\ \E b \in [1..Len(SPIN_BUTTON_SELECTORS) -> ElemStates],
          elsewhere \in BOOLEAN, shotOk \in BOOLEAN :
          /\ elsewhere => frames > 1
          /\ btnTarget' = (\E s \in DOMAIN b : b[s] = "visible")
          /\ btnElsewhere' = elsewhere
          /\ spin_button' = FindSpinButton(b)
          /\ IF FindSpinButton(b) = 0
             THEN Raise(IF shotOk THEN MSG_BUTTON ELSE MSG_PLAYWRIGHT)
             ELSE pc' = "click" /\ exc' = exc
    /\ UNCHANGED << args, file, file0, now, gate, spun, frames, emailIn,
                    email_input, scrapeErrs, result, outcome, exitCode >>

\* spin_button.click()
ClickButton ==
    /\ pc = "click"
    /\ \E clickOk \in BOOLEAN :
          IF clickOk THEN pc' = "scrape_header" /\ exc' = exc
          ELSE Raise(MSG_PLAYWRIGHT)
    /\ UNCHANGED << args, file, file0, now, gate, spun, locals, outcome,
                    exitCode >>

\* "Try to get the win header"
ScrapeHeaderStep ==
    /\ pc = "scrape_header"
    /\ \E h \in ScrapeOutcomes(HeaderTexts) :
          /\ scrapeErrs' = IF h.kind = "error" THEN scrapeErrs + 1 ELSE scrapeErrs
          /\ IF ExceptSwallow(h.kind) # NoExc
             THEN Raise(ExceptSwallow(h.kind)) /\ result' = result
             ELSE /\ result' = ScrapeHeader(h)
                  /\ pc' = "scrape_text"
                  /\ exc' = exc
    /\ UNCHANGED << args, file, file0, now, gate, spun, frames, emailIn,
                    email_input, btnTarget, btnElsewhere, spin_button, outcome,
                    exitCode >>

\* "Try to get the win text"
ScrapeWinTextStep ==
    /\ pc = "scrape_text"
    /\ \E w \in ScrapeOutcomes(WinTexts) :
          /\ scrapeErrs' = IF w.kind = "error" THEN scrapeErrs + 1 ELSE scrapeErrs
          /\ IF ExceptSwallow(w.kind) # NoExc
             THEN Raise(ExceptSwallow(w.kind)) /\ result' = result
             ELSE /\ result' = ScrapeWinText(result, w)
                  /\ pc' = "final"
                  /\ exc' = exc
    /\ UNCHANGED << args, file, file0, now, gate, spun, frames, emailIn,
                    email_input, btnTarget, btnElsewhere, spin_button, outcome,
                    exitCode >>

\* the final screenshot, the optional pause and `return result`
FinalScreenshot ==
    /\ pc = "final"
    /\ \E finalOk \in BOOLEAN :
          IF finalOk THEN pc' = "returned" /\ exc' = exc
          ELSE Raise(MSG_PLAYWRIGHT)
    /\ UNCHANGED << args, file, file0, now, gate, spun, locals, outcome,
                    exitCode >>

\* ---------------------------------------------------------- main, the end
SaveAlways(t) == TRUE
\* if not args.test: save_last_spin(result)
SaveWanted(t) == ~t

\* perform_spin returned: save, report, fall off the end of main
MainSave ==
    /\ pc = "returned"
    /\ file' = IF SaveWanted(test) THEN save_last_spin(result, now) ELSE file
    /\ Exit("success", 0)
    /\ UNCHANGED << args, file0, now, gate, spun, locals, exc >>

\* except Exception as e: the exit code follows from the message
MainExcept ==
    /\ pc = "raised"
    /\ Exit("raised", ExitCodeFor(exc))
    /\ UNCHANGED << args, file, file0, now, gate, spun, locals, exc >>

\* the next invocation of the script, with its own flags and environment
Restart ==
    /\ pc = "done"
    /\ test' \in BOOLEAN
    /\ force' \in BOOLEAN
    /\ emailSet' \in BOOLEAN
    /\ file0' = file
    /\ pc' = "start"
    /\ gate' = "none"
    /\ spun' = FALSE
    /\ frames' = 0
    /\ emailIn' = NoEmailIn
    /\ email_input' = NotFound
    /\ btnTarget' = FALSE
    /\ btnElsewhere' = FALSE
    /\ spin_button' = 0
    /\ scrapeErrs' = 0
    /\ result' = None
    /\ exc' = NoExc
    /\ outcome' = "running"
    /\ exitCode' = -1
    /\ UNCHANGED << file, now >>

Next ==
    \/ MainEmail
    \/ MainGate
    \/ Goto
    \/ ExceptClause
    \/ Tick
    \/ CloseRivoModal
    \/ CloseModalFallback
    \/ ClosePopup
    \/ FindEmail
    \/ FillEmail
    \/ FindButton
    \/ ClickButton
    \/ ScrapeHeaderStep
    \/ ScrapeWinTextStep
    \/ FinalScreenshot
    \/ MainSave
    \/ MainExcept
    \/ Restart

Spec == Init /\ [][Next]_vars

\* ================================================================ claims
\* the stored timestamp is one this program writes: ISO-8601 with UTC offset
StoredAware(f) == f.exists /\ f.last_spin.k = "iso" /\ f.last_spin.off = "+00:00"
NothingStored(f) == ~f.exists \/ f.last_spin = JsonNull

C2_MalformedFailsOpen ==
    (gate # "none" /\ file0.exists /\ file0.last_spin.k = "bad") =>
        (gate = "true" /\ outcome # "gate_error")

\* C3 as stated: a run with the force flag always reaches perform_spin.
C3_ForceAlwaysSpins == (force /\ pc = "done") => spun

\* C3 amended: a forced run never consults the gate and is never skipped,
\* whatever the record holds; once it has an identifier (test flag or
\* FWP_EMAIL set) it reaches perform_spin.
C3_ForceBypassesGate ==
    force =>
        /\ gate = "none"
        /\ outcome \notin {"skipped", "gate_error"}
        /\ (pc = "done" /\ (test \/ emailSet)) => spun

\* a forced non-test run spins although the record is too recent
C3_Witness ==
    /\ force /\ ~test /\ spun
    /\ StoredAware(file0)
    /\ now - file0.last_spin.t < required

\* C4: a test run leaves the state file as it found it, on every path.
C4_TestNeverWrites == test => file = file0

\* a test run has completed a spin over an existing record
C4_Witness ==
    /\ test /\ pc = "done" /\ outcome = "success"
    /\ file.exists /\ file = file0

\* C5: a non-test run whose perform_spin returned has replaced the record by
\* the current instant and the scraped result, None included.
C5_SuccessOverwrites ==
    (pc = "done" /\ outcome = "success" /\ ~test) =>
        /\ file.exists
        /\ fromisoformat(file.last_spin) = [raised |-> FALSE, dt |-> DateTime(now, TRUE)]
        /\ file.result = result

\* a successful non-test run without result text replaced an older record
C5_Witness ==
    /\ pc = "done" /\ outcome = "success" /\ ~test
    /\ result = None
    /\ file0.exists /\ ~file0.result.none
    /\ file.result = None

\* the email search ran and found the input in no context
TargetNotAvailable == emailIn # NoEmailIn /\ email_input = NotFound

\* C6 as stated: exit code 0 exactly when the run succeeded or the email
\* input was found in no context.
C6_ExitZeroIffSuccessOrUnavailable ==
    pc = "done" =>
        ((exitCode = 0) <=> (outcome = "success" \/ TargetNotAvailable))

\* C6 amended: exit code 0 exactly when the run succeeded, was skipped by the
\* gate, or perform_spin ended with the wheel-not-available exception; 1
\* otherwise; a failure mapped to 0 is always target-not-available, and a
\* missing submit control, a navigation failure and a timeout give 1.
C6_ExitCodes ==
    pc = "done" =>
        /\ exitCode \in {0, 1}
        /\ (exitCode = 0) <=>
              \/ outcome \in {"success", "skipped"}
              \/ outcome = "raised" /\ exc = MSG_WHEEL
        /\ (outcome = "raised" /\ exitCode = 0) => TargetNotAvailable
        /\ exc \in {MSG_BUTTON, MSG_NAV, MSG_TIMEOUT, MSG_PLAYWRIGHT} => exitCode = 1

\* the submit control was not located and the process ended with 1
C6_Witness == pc = "done" /\ exc = MSG_BUTTON /\ exitCode = 1

Pairs == {[frame |-> f, sel |-> s] : f \in 1..frames, s \in 1..Len(EMAIL_INPUT_SELECTORS)}
Earlier(p, q) == p.frame < q.frame \/ (p.frame = q.frame /\ p.sel < q.sel)
At(p) == emailIn[p.frame][p.sel]

C8_WrittenOnlyAfterSuccess ==
    /\ file # file0 =>
          /\ pc = "done" /\ outcome = "success"
          /\ spun /\ email_input # NotFound /\ spin_button # 0 /\ exc = NoExc
    /\ (pc = "done" /\ outcome # "success") => file = file0

\* a non-test run failed on the missing submit control over an existing record
C8_Witness ==
    /\ pc = "done" /\ outcome = "raised" /\ exc = MSG_BUTTON
    /\ ~test /\ file0.exists /\ file = file0

C10_OptionalStepsNeverAbort ==
    [][ /\ (pc = "modal" /\ pc' # pc) => (pc' \in {"fallback", "popup"} /\ exc' = NoExc)
        /\ (pc = "fallback" /\ pc' # pc) => (pc' = "popup" /\ exc' = NoExc)
        /\ (pc = "popup" /\ pc' # pc) => (pc' = "find_email" /\ exc' = NoExc)
        /\ (pc = "scrape_header" /\ pc' # pc) => (pc' = "scrape_text" /\ exc' = NoExc)
        /\ (pc = "scrape_text" /\ pc' # pc) =>
              /\ pc' = "final" /\ exc' = NoExc
              /\ scrapeErrs' = 2 => result' = None
        /\ (pc = "returned" /\ scrapeErrs = 2) =>
              /\ outcome' = "success" /\ exitCode' = 0
              /\ ~test => file'.result = None
      ]_vars

\* both scraping blocks failed and the run completed, recorded without result
C10_Witness ==
    /\ pc = "done" /\ outcome = "success" /\ exitCode = 0
    /\ scrapeErrs = 2 /\ result = None
    /\ ~test /\ file.result = None /\ file # file0

\* C11: should_spin is called only when neither --force nor --test is given;
\* a test run without the force flag never consults the gate, is never
\* skipped, and goes on to perform_spin whatever the record holds.
C11_TestBypassesGate ==
    /\ gate # "none" => (~force /\ ~test)
    /\ test =>
          /\ gate = "none"
          /\ outcome \notin {"skipped", "gate_error", "no_email"}
          /\ pc = "done" => spun

\* a test run without --force and without FWP_EMAIL spins over a record that
\* is too recent for the gate
C11_Witness ==
    /\ test /\ ~force /\ ~emailSet /\ spun
    /\ StoredAware(file0)
    /\ now - file0.last_spin.t < required

====
